---- MODULE Spec2Model ----
(***************************************************************************)
(* PIX checkout glue layer: the checkout handler (POST /api/pix/create),   *)
(* the status handler (GET /api/pix/status), the gateway webhook receiver  *)
(* (POST /api/webhook/blackcat) and the Black Cat gateway client.          *)
(*                                                                         *)
(* JavaScript values are modelled as follows.  A JSON object is a function *)
(* whose domain is the set of keys present.  The strings UNDEF and NULL    *)
(* stand for undefined and null where a string-valued field may also be    *)
(* absent or null.  A number that may also be a non-number is a tagged     *)
(* record [t |-> "num", v |-> n] / [t |-> "str", s |-> ...].               *)
(***************************************************************************)
EXTENDS Integers, Sequences, FiniteSets, TLC

VARIABLES store, nextOrder, chk, wh, cli, st

vars == <<store, nextOrder, chk, wh, cli, st>>

-----------------------------------------------------------------------------
(* JavaScript value helpers *)

UNDEF == "<undefined>"
NULL == "<null>"

\* truthiness of a string-or-undefined-or-null value
Truthy(v) == v \notin {UNDEF, NULL, ""}

\* obj.key for a string-valued key that may be absent
Get(obj, k) == IF k \in DOMAIN obj THEN obj[k] ELSE UNDEF

\* a || b on string-valued operands
Or(a, b) == IF Truthy(a) THEN a ELSE b

Without(obj, k) == [f \in DOMAIN obj \ {k} |-> obj[f]]

With(obj, k, v) == (k :> v) @@ obj

\* obj.key is the boolean true
IsTrue(obj, k) == k \in DOMAIN obj /\ obj[k] = TRUE

\* tagged numbers
Num(n) == [t |-> "num", v |-> n]
Str(s) == [t |-> "str", s |-> s]
NaN == [t |-> "nan"]

\* ToNumber of a tagged value: the empty string converts to 0, and every other
\* string of the model is non-numeric and converts to NaN
ToNumber(x) ==
  CASE x.t = "num" -> x
    [] x.t = "nan" -> x
    [] x.t = "str" -> IF x.s = "" THEN Num(0) ELSE NaN

\* !x for a tagged number-or-string
Not(x) ==
  CASE x.t = "num" -> x.v = 0
    [] x.t = "nan" -> TRUE
    [] x.t = "str" -> x.s = ""

\* x <= 0 : any comparison with NaN is false
LeqZero(x) == LET n == ToNumber(x) IN n.t = "num" /\ n.v <= 0

-----------------------------------------------------------------------------
(* Tracking parameters *)

Fields == {"src", "sck", "utm_source", "utm_campaign", "utm_medium", "utm_content", "utm_term"}

\* the defaultParams literal of extractTrackingParamsFromMetadata
defaultParams == [f \in Fields |-> NULL]

\* { src: p.src || null, ... } as written in both handlers
OrNullBlock(p) == [f \in Fields |-> Or(Get(p, f), NULL)]

\* a client-supplied tracking object: the fields in S carry a value, those
\* in E the empty string, the others are absent
RawBlock(S, E) == [f \in S \cup E |-> IF f \in S THEN "fb" ELSE ""]

FullBlock == RawBlock(Fields, {})
MixedBlock == RawBlock({"src", "utm_source"}, {"sck", "utm_term"})
EmptyBlock == RawBlock({}, {})

TrackingInputs == {FullBlock, MixedBlock, EmptyBlock}

-----------------------------------------------------------------------------
(* Correlation store (lib/server-utm-store): a map from order id to record *)

saveUtmParams(s, orderId, params) ==
  [k \in DOMAIN s \cup {orderId} |-> IF k = orderId THEN params ELSE s[k]]

hasUtmParams(s, orderId) == orderId \in DOMAIN s

getUtmParams(s, orderId) == s[orderId]

deleteUtmParams(s, orderId) == [k \in DOMAIN s \ {orderId} |-> s[k]]

-----------------------------------------------------------------------------
(* Attribution client (lib/utmfy) *)

NOW == "now"

\* dates: NOW, a well-formed timestamp string, or a string that is no date
ValidDates == {NOW, "2024-05-01T10:00:00Z"}

\* formatUtmfyDate: the formatted date, or a falsy value for an
\* unparseable input
formatUtmfyDate(d) == IF d \in ValidDates THEN "fmt:" \o d ELSE NULL

\* how a call of sendOrderToUtmfy can end: a result object reporting
\* success, a result object reporting failure, or a thrown error
UtmfyOutcomes == {"ok", "rejected", "throw"}

-----------------------------------------------------------------------------
(* Gateway client (lib/blackcat.ts) *)

\* the body of an HTTP response as response.json() sees it: text that is no
\* JSON, the JSON value null, or a JSON object
InvalidJson == [kind |-> "invalid"]
JsonNull == [kind |-> "null"]
JsonObject(o) == [kind |-> "object", obj |-> o]

\* how fetch can end: a network exception, or a response with its ok flag
FetchThrows == [kind |-> "throw"]
FetchResponse(ok, body) == [kind |-> "response", ok |-> ok, body |-> body]

\* what a client function hands to its caller
Returned(v) == [threw |-> FALSE, value |-> v]
Thrown == [threw |-> TRUE]

\* the value built in the catch block
connectionError ==
  JsonObject([success |-> FALSE, message |-> "Erro de conexao com a API", error |-> "Error"])

\* the try/catch body the three client functions share: fetch, response.json(),
\* the !response.ok branch, and the catch that turns every exception into a value
gatewayCallEscaping(outcome, fallback) ==
  IF outcome.kind = "throw" THEN Returned(connectionError)
  ELSE IF outcome.body.kind = "invalid" THEN Thrown
  ELSE IF ~outcome.ok
    THEN IF outcome.body.kind = "null" THEN Thrown
         ELSE Returned(JsonObject(
                [success |-> FALSE,
                 message |-> Or(Get(outcome.body.obj, "message"), fallback),
                 error |-> Get(outcome.body.obj, "error")]))
  ELSE Returned(outcome.body)

gatewayCall(outcome, fallback) ==
  IF outcome.kind = "throw" THEN Returned(connectionError)
  ELSE IF outcome.body.kind = "invalid" THEN Returned(connectionError)
  ELSE IF ~outcome.ok
    THEN IF outcome.body.kind = "null" THEN Returned(connectionError)
         ELSE Returned(JsonObject(
                [success |-> FALSE,
                 message |-> Or(Get(outcome.body.obj, "message"), fallback),
                 error |-> Get(outcome.body.obj, "error")]))
  ELSE Returned(outcome.body)

createBlackCatSale(outcome) == gatewayCall(outcome, "Erro ao criar venda")

getBlackCatTransactionStatus(outcome) == gatewayCall(outcome, "Erro ao consultar status")

getBlackCatSeller(outcome) == gatewayCall(outcome, "Erro ao obter vendedor")

\* toCents on whole amounts: Math.round(value * 100); a non-number gives NaN
toCents(value) ==
  LET n == ToNumber(value) IN IF n.t = "num" THEN Num(n.v * 100) ELSE NaN

\* strings handed to mapBlackCatStatus are sequences of characters
LowerLetters == <<"a", "c", "d", "e", "f", "g", "i", "l", "n", "p", "r", "u">>
UpperLetters == <<"A", "C", "D", "E", "F", "G", "I", "L", "N", "P", "R", "U">>

toUpperCaseChar(c) ==
  IF \E i \in DOMAIN LowerLetters : LowerLetters[i] = c
    THEN UpperLetters[CHOOSE i \in DOMAIN LowerLetters : LowerLetters[i] = c]
    ELSE c

toLowerCaseChar(c) ==
  IF \E i \in DOMAIN UpperLetters : UpperLetters[i] = c
    THEN LowerLetters[CHOOSE i \in DOMAIN UpperLetters : UpperLetters[i] = c]
    ELSE c

toUpperCase(s) == [i \in 1..Len(s) |-> toUpperCaseChar(s[i])]

PENDING == <<"P", "E", "N", "D", "I", "N", "G">>
PAID == <<"P", "A", "I", "D">>
CANCELLED == <<"C", "A", "N", "C", "E", "L", "L", "E", "D">>
REFUNDED == <<"R", "E", "F", "U", "N", "D", "E", "D">>

mapBlackCatStatusCaseSensitive(status) ==
  CASE status = PENDING -> "pending"
    [] status = PAID -> "paid"
    [] status = CANCELLED -> "cancelled"
    [] status = REFUNDED -> "refunded"
    [] OTHER -> "pending"

mapBlackCatStatus(status) ==
  LET u == toUpperCase(status) IN
  CASE u = PENDING -> "pending"
    [] u = PAID -> "paid"
    [] u = CANCELLED -> "cancelled"
    [] u = REFUNDED -> "refunded"
    [] OTHER -> "pending"

-----------------------------------------------------------------------------
(* Bounds and inputs of the checkout handler *)

\* how many order ids generateOrderId hands out in one behaviour
MaxOrders == 2

\* generateOrderId: "PED-<time>-<random>"; the time and random parts are one
\* counter, so that every call gives a new id
generateOrderId(n) == "PED-" \o ToString(n)

OrderIds == {generateOrderId(n) : n \in 1..MaxOrders}

customer0 == [name |-> "Ana", email |-> "ana@x.com", cpf |-> "12345678901", phone |-> "11999990000"]

address0 == [street |-> "Rua A", number |-> "1", neighborhood |-> "Centro", city |-> "SP", state |-> "SP"]

item0 == [id |-> "p1", name |-> "Caderno", price |-> Num(50), quantity |-> 1]

\* a request body that passes validation, without tracking parameters
body0 == [customer |-> customer0, address |-> address0, items |-> <<item0>>, total |-> Num(50)]

\* request bodies: valid ones with and without tracking parameters and
\* shipping, and bodies with one field missing or malformed
CheckoutBodies ==
  {body0, With(body0, "shipping", [name |-> "Sedex", price |-> Num(10)])}
  \cup {With(body0, "trackingParams", t) : t \in TrackingInputs}
  \cup {Without(body0, "customer"), Without(body0, "items"), Without(body0, "total"),
        Without(body0, "address")}
  \cup {With(body0, "customer", Without(customer0, f)) : f \in DOMAIN customer0}
  \cup {With(body0, "customer", With(customer0, "email", ""))}
  \cup {With(body0, "items", <<>>)}
  \cup {With(With(body0, "trackingParams", MixedBlock), "total", x) :
          x \in {Num(0), Num(0 - 5), Str("abc"), Str("")}}

CheckoutRequests == {InvalidJson} \cup {JsonObject(b) : b \in CheckoutBodies}

\* the requests that matter to the webhook receiver: with and without tracking
\* parameters, and one that fails after the store was written
TrackedRequests ==
  {JsonObject(body0), JsonObject(With(body0, "trackingParams", FullBlock)),
   JsonObject(With(body0, "trackingParams", MixedBlock)),
   JsonObject(Without(With(body0, "trackingParams", MixedBlock), "address")),
   JsonObject(Without(body0, "total"))}

\* PIX artifacts of a created charge
paymentData0 == [copyPaste |-> "000201pix", qrCode |-> "qr", qrCodeBase64 |-> "b64", expiresAt |-> "2024-05-02"]

saleData0 == [transactionId |-> "tx1", status |-> "PENDING", fees |-> Num(30), netAmount |-> Num(4970),
              paymentData |-> paymentData0]

\* a charge without fee figures and without a copy-paste string
saleData1 == [transactionId |-> "tx1", status |-> "PENDING",
              paymentData |-> With(paymentData0, "copyPaste", "")]

\* what the gateway can answer to create-sale
SaleOutcomes ==
  {FetchThrows,
   FetchResponse(FALSE, JsonObject([message |-> "Invalid document", error |-> "Bad Request"])),
   FetchResponse(FALSE, InvalidJson),
   FetchResponse(TRUE, JsonNull),
   FetchResponse(TRUE, JsonObject([success |-> FALSE, message |-> "Recusado"])),
   FetchResponse(TRUE, JsonObject([success |-> TRUE])),
   FetchResponse(TRUE, JsonObject([success |-> TRUE, data |-> saleData0])),
   FetchResponse(TRUE, JsonObject([success |-> TRUE, data |-> saleData1]))}

\* the answers that matter to the webhook receiver: a failure and a charge
TrackedOutcomes ==
  {FetchThrows, FetchResponse(TRUE, JsonObject([success |-> TRUE, data |-> saleData0]))}

NoResult == Returned([kind |-> "none"])

NoResponse == [status |-> 0]

ErrorResponse(code, msg) == [status |-> code, error |-> msg]

\* a || b on tagged numbers, a possibly absent
OrNum(obj, k, b) == IF k \in DOMAIN obj /\ ~Not(obj[k]) THEN obj[k] ELSE b

chk0 == [pc |-> "idle", req |-> InvalidJson, orderId |-> "", gwCalls |-> 0, request |-> <<>>,
         gw |-> NoResult, calls |-> <<>>, utmfy |-> "none", resp |-> NoResponse]

-----------------------------------------------------------------------------
(* POST /api/pix/create *)

\* lines 27-37: the three validations, in order; "" when the body passes
validate(body) ==
  IF \/ "customer" \notin DOMAIN body
     \/ \E f \in {"name", "email", "cpf", "phone"} : ~Truthy(Get(body.customer, f))
    THEN "Dados do cliente incompletos"
  ELSE IF "items" \notin DOMAIN body \/ Len(body.items) = 0
    THEN "Nenhum item no pedido"
  ELSE IF "total" \notin DOMAIN body \/ Not(body.total) \/ LeqZero(body.total)
    THEN "Valor total invalido"
  ELSE ""

\* JSON.stringify({orderId, trackingParams}): an undefined member is left out
checkoutMetadata(orderId, body) ==
  JsonObject(IF "trackingParams" \in DOMAIN body
               THEN [orderId |-> orderId, trackingParams |-> body.trackingParams]
               ELSE [orderId |-> orderId])

\* the waiting_payment event of lines 126-164
waitingPaymentOrder(orderId, body, data) ==
  LET amountInCents == toCents(body.total) IN
  [orderId |-> orderId, platform |-> "papelaria-site", paymentMethod |-> "pix",
   status |-> "waiting_payment",
   createdAt |-> Or(formatUtmfyDate(NOW), ""),
   approvedDate |-> NULL, refundedAt |-> NULL,
   customer |-> [name |-> body.customer.name, email |-> body.customer.email],
   products |-> [i \in DOMAIN body.items |->
                   [id |-> Or(Get(body.items[i], "id"), "product"),
                    priceInCents |-> toCents(body.items[i].price)]],
   trackingParameters |->
     OrNullBlock(IF "trackingParams" \in DOMAIN body THEN body.trackingParams ELSE EmptyBlock),
   commission |-> [totalPriceInCents |-> amountInCents,
                   gatewayFeeInCents |-> OrNum(data, "fees", Num(0)),
                   userCommissionInCents |-> OrNum(data, "netAmount", amountInCents)]]

\* the mutant of CheckoutReceive: the tracking parameters are not saved before
\* the create-sale call is issued
CheckoutReceiveCallFirst(Requests) ==
  /\ chk.pc \in {"idle", "done"}
  /\ \E req \in Requests :
       LET fresh == [chk0 EXCEPT !.req = req]
           orderId == generateOrderId(nextOrder) IN
       IF req.kind = "invalid"
         THEN /\ chk' = [fresh EXCEPT !.pc = "done",
                           !.resp = ErrorResponse(500, "Erro interno ao processar pagamento")]
              /\ UNCHANGED <<store, nextOrder>>
       ELSE IF validate(req.obj) # ""
         THEN /\ chk' = [fresh EXCEPT !.pc = "done", !.resp = ErrorResponse(400, validate(req.obj))]
              /\ UNCHANGED <<store, nextOrder>>
       ELSE /\ nextOrder <= MaxOrders
            /\ nextOrder' = nextOrder + 1
            /\ store' = store
            /\ IF "address" \notin DOMAIN req.obj
                 THEN chk' = [fresh EXCEPT !.pc = "done", !.orderId = orderId,
                                !.resp = ErrorResponse(500, "Erro interno ao processar pagamento")]
                 ELSE chk' = [fresh EXCEPT !.pc = "gateway", !.orderId = orderId, !.gwCalls = 1,
                                !.request = <<[amount |-> toCents(req.obj.total),
                                               externalRef |-> orderId,
                                               metadata |-> checkoutMetadata(orderId, req.obj)]>>]
  /\ UNCHANGED <<wh, cli, st>>

\* lines 20-116: parse, validate, generate the order id, save the tracking
\* parameters, build the gateway request and issue the create-sale call
CheckoutReceive(Requests) ==
  /\ chk.pc \in {"idle", "done"}
  /\ \E req \in Requests :
       LET fresh == [chk0 EXCEPT !.req = req]
           orderId == generateOrderId(nextOrder) IN
       IF req.kind = "invalid"
         THEN /\ chk' = [fresh EXCEPT !.pc = "done",
                           !.resp = ErrorResponse(500, "Erro interno ao processar pagamento")]
              /\ UNCHANGED <<store, nextOrder>>
       ELSE IF validate(req.obj) # ""
         THEN /\ chk' = [fresh EXCEPT !.pc = "done", !.resp = ErrorResponse(400, validate(req.obj))]
              /\ UNCHANGED <<store, nextOrder>>
       ELSE /\ nextOrder <= MaxOrders
            /\ nextOrder' = nextOrder + 1
            /\ store' = IF "trackingParams" \in DOMAIN req.obj
                          THEN saveUtmParams(store, orderId, OrNullBlock(req.obj.trackingParams))
                          ELSE store
            /\ IF "address" \notin DOMAIN req.obj
                 THEN chk' = [fresh EXCEPT !.pc = "done", !.orderId = orderId,
                                !.resp = ErrorResponse(500, "Erro interno ao processar pagamento")]
                 ELSE chk' = [fresh EXCEPT !.pc = "gateway", !.orderId = orderId, !.gwCalls = 1,
                                !.request = <<[amount |-> toCents(req.obj.total),
                                               externalRef |-> orderId,
                                               metadata |-> checkoutMetadata(orderId, req.obj)]>>]
  /\ UNCHANGED <<wh, cli, st>>

\* the mutant of CheckoutGatewayReturn: the attribution event is sent before the
\* gateway's answer is looked at
CheckoutGatewayReturnSendFirst(Outcomes) ==
  /\ chk.pc = "gateway"
  /\ \E outcome \in Outcomes :
       LET r == createBlackCatSale(outcome)
           v == r.value
           data == IF ~r.threw /\ v.kind = "object" /\ "data" \in DOMAIN v.obj THEN v.obj.data ELSE <<>> IN
       chk' = [chk EXCEPT !.gw = r, !.pc = "utmfy",
                 !.calls = Append(@, waitingPaymentOrder(chk.orderId, chk.req.obj, data))]
  /\ UNCHANGED <<store, nextOrder, wh, cli, st>>

\* lines 116-167: the gateway's answer arrives; on failure answer 500, otherwise
\* build the waiting_payment event and call sendOrderToUtmfy
CheckoutGatewayReturn(Outcomes) ==
  /\ chk.pc = "gateway"
  /\ \E outcome \in Outcomes :
       LET r == createBlackCatSale(outcome)
           v == r.value IN
       IF r.threw \/ v.kind # "object"
         THEN chk' = [chk EXCEPT !.gw = r, !.pc = "done",
                        !.resp = ErrorResponse(500, "Erro interno ao processar pagamento")]
       ELSE IF ~IsTrue(v.obj, "success") \/ "data" \notin DOMAIN v.obj
         THEN chk' = [chk EXCEPT !.gw = r, !.pc = "done",
                        !.resp = ErrorResponse(500, Or(Get(v.obj, "message"), "Erro ao criar pagamento PIX"))]
       ELSE chk' = [chk EXCEPT !.gw = r, !.pc = "utmfy",
                      !.calls = Append(@, waitingPaymentOrder(chk.orderId, chk.req.obj, v.obj.data))]
  /\ UNCHANGED <<store, nextOrder, wh, cli, st>>

\* lines 175-184: the response of a created charge
checkoutSuccess(orderId, data) ==
  [status |-> 200, success |-> TRUE, orderId |-> orderId, transactionId |-> data.transactionId,
   pix |-> [qrcode |-> Or(data.paymentData.copyPaste, data.paymentData.qrCode),
            qrCodeBase64 |-> data.paymentData.qrCodeBase64,
            expiresAt |-> data.paymentData.expiresAt]]

\* the mutant of CheckoutUtmfyReturn: no try/catch around the attribution call,
\* so that a thrown error reaches the handler's outer catch
CheckoutUtmfyReturnUncaught ==
  /\ chk.pc = "utmfy"
  /\ \E outcome \in UtmfyOutcomes :
       chk' = [chk EXCEPT !.pc = "done", !.utmfy = outcome,
                 !.resp = IF outcome = "throw"
                            THEN ErrorResponse(500, "Erro interno ao processar pagamento")
                            ELSE checkoutSuccess(chk.orderId, chk.gw.value.obj.data)]
  /\ UNCHANGED <<store, nextOrder, wh, cli, st>>

\* lines 167-184: sendOrderToUtmfy returns or throws (caught at line 169); the
\* handler answers with the PIX data either way
CheckoutUtmfyReturn ==
  /\ chk.pc = "utmfy"
  /\ \E outcome \in UtmfyOutcomes :
       chk' = [chk EXCEPT !.pc = "done", !.utmfy = outcome,
                 !.resp = checkoutSuccess(chk.orderId, chk.gw.value.obj.data)]
  /\ UNCHANGED <<store, nextOrder, wh, cli, st>>

-----------------------------------------------------------------------------
(* Inputs of the webhook receiver *)

\* event names are sequences of tokens, so that startsWith is computed
transactionCreated == <<"transaction", ".", "created">>
transactionPaid == <<"transaction", ".", "paid">>
transactionFailed == <<"transaction", ".", "failed">>

WebhookEvents ==
  {transactionCreated, transactionPaid, transactionFailed,
   <<"withdrawal", ".", "created">>, <<"withdrawal", ".", "failed">>,
   <<"withdrawal">>, <<"charge", ".", "refunded">>, <<>>}

startsWith(s, prefix) == Len(s) >= Len(prefix) /\ SubSeq(s, 1, Len(prefix)) = prefix

\* the metadata strings a webhook can carry: no JSON, the JSON null, the
\* nested shape the checkout writes, and the flat shape
MetadataInputs ==
  {InvalidJson, JsonNull,
   JsonObject([orderId |-> "PED-1"]),
   JsonObject([orderId |-> "PED-1", trackingParams |-> MixedBlock]),
   JsonObject(With(MixedBlock, "utm_medium", "cpc"))}

payload0 == [event |-> transactionPaid, transactionId |-> "tx1", externalReference |-> "PED-1",
             amount |-> Num(5000), fees |-> Num(30), netAmount |-> Num(4970),
             paidAt |-> "2024-05-01T10:00:00Z",
             customer |-> [name |-> "Ana", email |-> "ana@x.com"]]

\* without(p, K): the payload p with the keys of K left out
WithoutAll(obj, K) == [f \in DOMAIN obj \ K |-> obj[f]]

WebhookPayloads ==
  \* a paid event for every order id, with every metadata shape
  {With(With(payload0, "externalReference", id), "metadata", m) :
     id \in OrderIds, m \in MetadataInputs}
  \* a failed event for every order id, and one with metadata
  \cup {With(With(payload0, "event", transactionFailed), "externalReference", id) : id \in OrderIds}
  \cup {With(With(payload0, "event", transactionFailed), "metadata",
              JsonObject([orderId |-> "PED-1", trackingParams |-> MixedBlock]))}
  \* every event name, and a missing one
  \cup {With(payload0, "event", e) : e \in WebhookEvents}
  \cup {WithoutAll(payload0, {"event"})}
  \* a paid event without the external reference, without both ids
  \cup {WithoutAll(payload0, K) : K \in {{"externalReference"}, {"externalReference", "transactionId"}}}
  \* a paid event whose external reference is the empty string
  \cup {With(payload0, "externalReference", "")}
  \* a paid event without paid-at, with an unparseable one, without amounts
  \cup {WithoutAll(payload0, {"paidAt"}), With(payload0, "paidAt", "soon"),
        WithoutAll(payload0, {"amount", "fees", "netAmount", "customer"}),
        WithoutAll(With(payload0, "event", transactionFailed), {"amount", "fees", "netAmount"})}

WebhookRequests == {InvalidJson} \cup {JsonObject(p) : p \in WebhookPayloads}

wh0 == [pc |-> "idle", req |-> InvalidJson, orderId |-> "", found |-> FALSE, branch |-> "none",
        trackingParams |-> defaultParams, calls |-> <<>>, utmfy |-> "none", resp |-> NoResponse]

Ack(msg) == [status |-> 200, success |-> TRUE, message |-> msg]

-----------------------------------------------------------------------------
(* POST /api/webhook/blackcat *)

\* payload.metadata, undefined when the key is absent
NoMetadata == [kind |-> "undefined"]

metadataOf(payload) == IF "metadata" \in DOMAIN payload THEN payload.metadata ELSE NoMetadata

\* lines 6-36: the tracking block of the metadata string.  JSON.parse throws on
\* text that is no JSON, and parsed.trackingParams throws on null; both are
\* caught at line 32
extractTrackingParamsFromMetadata(metadata) ==
  IF metadata.kind = "undefined" THEN defaultParams
  ELSE IF metadata.kind # "object" THEN defaultParams
  ELSE LET parsed == metadata.obj
           trackingParams == IF "trackingParams" \in DOMAIN parsed
                               THEN parsed.trackingParams
                               ELSE parsed
       IN  OrNullBlock(trackingParams)

\* the mutant of getTrackingParams: the metadata is preferred to the store
getTrackingParamsMetadataFirst(s, orderId, metadata) ==
  IF metadata.kind = "object" \/ ~hasUtmParams(s, orderId)
    THEN extractTrackingParamsFromMetadata(metadata)
    ELSE OrNullBlock(getUtmParams(s, orderId))

\* lines 38-58: the store's record when there is one, else the metadata
getTrackingParams(s, orderId, metadata) ==
  IF hasUtmParams(s, orderId)
    THEN OrNullBlock(getUtmParams(s, orderId))
    ELSE extractTrackingParamsFromMetadata(metadata)

\* the mutant of resolveOrderId: the transaction id is preferred to the
\* external reference
resolveOrderIdTransactionFirst(payload) ==
  Or(Get(payload, "transactionId"), Or(Get(payload, "externalReference"), ""))

\* line 78: externalReference || transactionId || ""
resolveOrderId(payload) ==
  Or(Get(payload, "externalReference"), Or(Get(payload, "transactionId"), ""))

\* customer?.name || "Cliente", customer?.email || ""
webhookCustomer(payload) ==
  LET c == IF "customer" \in DOMAIN payload THEN payload.customer ELSE <<>> IN
  [name |-> Or(Get(c, "name"), "Cliente"), email |-> Or(Get(c, "email"), ""),
   phone |-> NULL, document |-> NULL, country |-> "BR"]

\* lines 93-125: the paid event
paidOrder(orderId, payload, trackingParams) ==
  [orderId |-> orderId, platform |-> "papelaria-site", paymentMethod |-> "pix",
   status |-> "paid",
   createdAt |-> Or(formatUtmfyDate(NOW), ""),
   approvedDate |-> Or(formatUtmfyDate(Or(Get(payload, "paidAt"), NOW)), ""),
   refundedAt |-> NULL,
   customer |-> webhookCustomer(payload),
   products |-> <<[id |-> "order", priceInCents |-> OrNum(payload, "amount", Num(0))]>>,
   trackingParameters |-> trackingParams,
   commission |-> [totalPriceInCents |-> OrNum(payload, "amount", Num(0)),
                   gatewayFeeInCents |-> OrNum(payload, "fees", Num(0)),
                   userCommissionInCents |->
                     OrNum(payload, "netAmount", OrNum(payload, "amount", Num(0)))]]

\* lines 144-176: the refused event
refusedOrder(orderId, payload, trackingParams) ==
  [orderId |-> orderId, platform |-> "papelaria-site", paymentMethod |-> "pix",
   status |-> "refused",
   createdAt |-> Or(formatUtmfyDate(NOW), ""),
   approvedDate |-> NULL,
   refundedAt |-> NULL,
   customer |-> webhookCustomer(payload),
   products |-> <<[id |-> "order", priceInCents |-> OrNum(payload, "amount", Num(0))]>>,
   trackingParameters |-> trackingParams,
   commission |-> [totalPriceInCents |-> OrNum(payload, "amount", Num(0)),
                   gatewayFeeInCents |-> Num(0),
                   userCommissionInCents |-> Num(0)]]

\* the mutant of webhookBranch: the failed branch matches on the last token,
\* so that withdrawal.failed is handled as a failed transaction
webhookBranchSuffix(payload) ==
  IF "event" \notin DOMAIN payload THEN "TypeError"
  ELSE IF payload.event = transactionCreated THEN "created"
  ELSE IF payload.event = transactionPaid THEN "paid"
  ELSE IF Len(payload.event) > 0 /\ payload.event[Len(payload.event)] = "failed" THEN "failed"
  ELSE IF startsWith(payload.event, <<"withdrawal", ".">>) THEN "withdrawal"
  ELSE "unhandled"

\* lines 83, 89, 139, 190, 195: the branch an event takes.  The three equality
\* tests are false for a missing event, and event.startsWith then throws a
\* TypeError
webhookBranch(payload) ==
  IF "event" \in DOMAIN payload /\ payload.event = transactionCreated THEN "created"
  ELSE IF "event" \in DOMAIN payload /\ payload.event = transactionPaid THEN "paid"
  ELSE IF "event" \in DOMAIN payload /\ payload.event = transactionFailed THEN "failed"
  ELSE IF "event" \notin DOMAIN payload THEN "TypeError"
  ELSE IF startsWith(payload.event, <<"withdrawal", ".">>) THEN "withdrawal"
  ELSE "unhandled"

\* lines 61-196 up to the first await of sendOrderToUtmfy: parse the body,
\* resolve the order id and the tracking parameters, dispatch on the event;
\* an exception ends in the outer catch of line 197
WebhookReceive ==
  /\ wh.pc \in {"idle", "done"}
  /\ \E req \in WebhookRequests :
       LET fresh == [wh0 EXCEPT !.req = req] IN
       IF req.kind = "invalid"
         THEN wh' = [fresh EXCEPT !.pc = "done", !.resp = ErrorResponse(500, "Erro ao processar webhook")]
       ELSE
         LET payload == req.obj
             orderId == resolveOrderId(payload)
             trackingParams == getTrackingParams(store, orderId, metadataOf(payload))
             got == [fresh EXCEPT !.orderId = orderId, !.found = hasUtmParams(store, orderId),
                       !.trackingParams = trackingParams, !.branch = webhookBranch(payload)]
         IN
         CASE got.branch = "created" ->
                wh' = [got EXCEPT !.pc = "done", !.resp = Ack("Evento recebido")]
           [] got.branch = "paid" ->
                wh' = [got EXCEPT !.pc = "utmfy",
                         !.calls = Append(@, paidOrder(orderId, payload, trackingParams))]
           [] got.branch = "failed" ->
                wh' = [got EXCEPT !.pc = "utmfy",
                         !.calls = Append(@, refusedOrder(orderId, payload, trackingParams))]
           [] got.branch = "TypeError" ->
                wh' = [got EXCEPT !.pc = "done", !.resp = ErrorResponse(500, "Erro ao processar webhook")]
           [] got.branch = "withdrawal" ->
                wh' = [got EXCEPT !.pc = "done", !.resp = Ack("Evento de saque recebido")]
           [] got.branch = "unhandled" ->
                wh' = [got EXCEPT !.pc = "done", !.resp = Ack("Evento recebido")]
  /\ UNCHANGED <<store, nextOrder, chk, cli, st>>

\* the mutant of WebhookUtmfyReturn: the store entry is never deleted
WebhookUtmfyReturnNoDelete ==
  /\ wh.pc = "utmfy"
  /\ \E outcome \in UtmfyOutcomes :
       wh' = [wh EXCEPT !.pc = "done", !.utmfy = outcome,
                !.resp = IF wh.branch = "paid"
                           THEN Ack("Pagamento processado")
                           ELSE Ack("Falha processada")]
  /\ UNCHANGED <<store, nextOrder, chk, cli, st>>

\* lines 128-136 and 179-186: sendOrderToUtmfy returns and the store entry is
\* deleted, or it throws and the catch skips the delete; the answer is 200
WebhookUtmfyReturn ==
  /\ wh.pc = "utmfy"
  /\ \E outcome \in UtmfyOutcomes :
       /\ store' = IF outcome = "throw" THEN store ELSE deleteUtmParams(store, wh.orderId)
       /\ wh' = [wh EXCEPT !.pc = "done", !.utmfy = outcome,
                   !.resp = IF wh.branch = "paid"
                              THEN Ack("Pagamento processado")
                              ELSE Ack("Falha processada")]
  /\ UNCHANGED <<nextOrder, chk, cli, st>>

-----------------------------------------------------------------------------
(* GET /api/pix/status *)

\* every spelling of the word w in upper and lower case letters
CaseVariants(w) ==
  {[i \in 1..Len(w) |-> IF i \in S THEN w[i] ELSE toLowerCaseChar(w[i])] : S \in SUBSET (1..Len(w))}

\* raw status strings: the four gateway states in every spelling, and strings
\* that are none of them
StatusInputs ==
  CaseVariants(PENDING) \cup CaseVariants(PAID) \cup CaseVariants(CANCELLED) \cup CaseVariants(REFUNDED)
  \cup {<<>>, <<"b", "o", "g", "u", "s">>, <<"P", "A", "I">>, <<"P", "A", "I", "D", " ">>,
        <<"E", "X", "P", "I", "R", "E", "D">>, <<"p", "a", "g", "o">>}

StatusOutcomes ==
  {FetchThrows,
   FetchResponse(FALSE, JsonObject([message |-> "Not found"])),
   FetchResponse(TRUE, JsonNull),
   FetchResponse(TRUE, JsonObject([success |-> FALSE, message |-> "Recusado"])),
   FetchResponse(TRUE, JsonObject([success |-> TRUE]))}
  \cup {FetchResponse(TRUE, JsonObject([success |-> TRUE,
                                        data |-> [transactionId |-> "tx1", status |-> s,
                                                  paidAt |-> "2024-05-01T10:00:00Z",
                                                  endToEndId |-> "E123"]])) :
          s \in StatusInputs}

st0 == [pc |-> "idle", transactionId |-> UNDEF, gw |-> NoResult, resp |-> NoResponse]

\* lines 195-205 of the status handler: require transactionId, issue the call
StatusReceive ==
  /\ st.pc \in {"idle", "done"}
  /\ \E transactionId \in {UNDEF, "", "tx1"} :
       IF ~Truthy(transactionId)
         THEN st' = [st0 EXCEPT !.pc = "done", !.transactionId = transactionId,
                       !.resp = ErrorResponse(400, "transactionId e obrigatorio")]
         ELSE st' = [st0 EXCEPT !.pc = "gateway", !.transactionId = transactionId]
  /\ UNCHANGED <<store, nextOrder, chk, wh, cli>>

\* lines 205-223: the gateway's answer arrives; map the raw status
StatusGatewayReturn ==
  /\ st.pc = "gateway"
  /\ \E outcome \in StatusOutcomes :
       LET r == getBlackCatTransactionStatus(outcome)
           v == r.value IN
       IF r.threw \/ v.kind # "object"
         THEN st' = [st EXCEPT !.gw = r, !.pc = "done",
                       !.resp = ErrorResponse(500, "Erro interno ao consultar status")]
       ELSE IF ~IsTrue(v.obj, "success") \/ "data" \notin DOMAIN v.obj
         THEN st' = [st EXCEPT !.gw = r, !.pc = "done",
                       !.resp = ErrorResponse(500, Or(Get(v.obj, "message"), "Erro ao consultar status"))]
       ELSE st' = [st EXCEPT !.gw = r, !.pc = "done",
                     !.resp = [status |-> 200, success |-> TRUE, transactionId |-> st.transactionId,
                               mapped |-> mapBlackCatStatus(v.obj.data.status),
                               paidAt |-> Get(v.obj.data, "paidAt"),
                               endToEndId |-> Get(v.obj.data, "endToEndId")]]
  /\ UNCHANGED <<store, nextOrder, chk, wh, cli>>

-----------------------------------------------------------------------------
(* The gateway client called on its own *)

\* JSON objects a gateway response can carry: any subset of the members
\* success, message, error and data
GatewayObjects ==
  {WithoutAll([success |-> b, message |-> m, error |-> "Bad Request", data |-> saleData0], K) :
     b \in BOOLEAN, m \in {"", "Invalid document"},
     K \in SUBSET {"success", "message", "error", "data"}}

ClientOutcomes ==
  {FetchThrows}
  \cup {FetchResponse(ok, body) :
          ok \in BOOLEAN, body \in {InvalidJson, JsonNull} \cup {JsonObject(o) : o \in GatewayObjects}}

cli0 == [op |-> "none", outcome |-> FetchThrows, result |-> NoResult]

CallCreateSale ==
  /\ \E outcome \in ClientOutcomes :
       cli' = [op |-> "createBlackCatSale", outcome |-> outcome, result |-> createBlackCatSale(outcome)]
  /\ UNCHANGED <<store, nextOrder, chk, wh, st>>

CallGetStatus ==
  /\ \E outcome \in ClientOutcomes :
       cli' = [op |-> "getBlackCatTransactionStatus", outcome |-> outcome,
               result |-> getBlackCatTransactionStatus(outcome)]
  /\ UNCHANGED <<store, nextOrder, chk, wh, st>>

CallGetSeller ==
  /\ \E outcome \in ClientOutcomes :
       cli' = [op |-> "getBlackCatSeller", outcome |-> outcome, result |-> getBlackCatSeller(outcome)]
  /\ UNCHANGED <<store, nextOrder, chk, wh, st>>

-----------------------------------------------------------------------------
(* Specifications *)

Init ==
  /\ store = <<>>
  /\ nextOrder = 1
  /\ chk = chk0
  /\ wh = wh0
  /\ cli = cli0
  /\ st = st0

\* the checkout handler and the webhook receiver, one request of each in flight
Next ==
  \/ CheckoutReceive(TrackedRequests)
  \/ CheckoutGatewayReturn(TrackedOutcomes)
  \/ CheckoutUtmfyReturn
  \/ WebhookReceive
  \/ WebhookUtmfyReturn

Spec == Init /\ [][Next]_vars

\* the checkout handler alone, on every request body and gateway answer
NextCheckout ==
  \/ CheckoutReceive(CheckoutRequests)
  \/ CheckoutGatewayReturn(SaleOutcomes)
  \/ CheckoutUtmfyReturn

SpecCheckout == Init /\ [][NextCheckout]_vars

\* the status handler
NextStatus == StatusReceive \/ StatusGatewayReturn

SpecStatus == Init /\ [][NextStatus]_vars

\* the three gateway client functions
NextClient == CallCreateSale \/ CallGetStatus \/ CallGetSeller

SpecClient == Init /\ [][NextClient]_vars

-----------------------------------------------------------------------------
(* Properties *)

\* the gateway client's answer reports failure: success is not true, or there
\* is no data
GatewayReportedFailure ==
  /\ ~chk.gw.threw
  /\ chk.gw.value.kind = "object"
  /\ (~IsTrue(chk.gw.value.obj, "success") \/ "data" \notin DOMAIN chk.gw.value.obj)

\* C1: when the create-charge call reports failure (success false or no data),
\* the checkout handler answers 500 and has sent no attribution event in that
\* request.
C1_GatewayFailureNoAttribution ==
  GatewayReportedFailure =>
    /\ chk.pc = "done"
    /\ chk.resp.status = 500
    /\ chk.calls = <<>>

C1_Witness ==
  /\ GatewayReportedFailure
  /\ chk.gw.value.obj = [success |-> TRUE]
  /\ "trackingParams" \in DOMAIN chk.req.obj
  /\ chk.resp.status = 500

\* the webhook request in hand carries the given event
WebhookEventIs(e) ==
  /\ wh.req.kind = "object"
  /\ "event" \in DOMAIN wh.req.obj
  /\ wh.req.obj.event = e

\* the attribution client received a paid event with a non-null approvedDate
ReceivedPaidEvent ==
  \E i \in DOMAIN wh.calls :
    /\ wh.calls[i].status = "paid"
    /\ wh.calls[i].orderId = wh.orderId
    /\ wh.calls[i].approvedDate # NULL
    /\ LET paidAt == Get(wh.req.obj, "paidAt") IN
       /\ paidAt \in ValidDates => wh.calls[i].approvedDate = formatUtmfyDate(paidAt)
       /\ paidAt = UNDEF => wh.calls[i].approvedDate = formatUtmfyDate(NOW)

\* C2 as stated: after a transaction.paid event for an order id with a saved
\* record was processed, the store has no record for that id and the
\* attribution client received a paid event with approvedDate set.
C2_PaidAlwaysCleansUp ==
  (wh.pc = "done" /\ WebhookEventIs(transactionPaid) /\ wh.found) =>
    /\ ~hasUtmParams(store, wh.orderId)
    /\ ReceivedPaidEvent

\* C2 as amended: the same, provided the attribution call returned (with
\* whatever result) instead of throwing; when it throws, the paid event was
\* still handed to the client.
C2_PaidCleansUpWhenSendReturns ==
  (wh.pc = "done" /\ WebhookEventIs(transactionPaid) /\ wh.found) =>
    /\ ReceivedPaidEvent
    /\ wh.utmfy # "throw" => ~hasUtmParams(store, wh.orderId)

C2_Witness ==
  /\ wh.pc = "done"
  /\ WebhookEventIs(transactionPaid)
  /\ wh.found
  /\ wh.utmfy = "rejected"
  /\ ~hasUtmParams(store, wh.orderId)
  /\ DOMAIN store # {}

\* C3: after a transaction.failed event was processed, a refused event with
\* zero gateway fee and zero user commission was sent, and the store has no
\* record for the resolved order id, whether the send succeeded or failed.
C3_FailedAlwaysCleansUp ==
  (wh.pc = "done" /\ WebhookEventIs(transactionFailed)) =>
    /\ \E i \in DOMAIN wh.calls :
         /\ wh.calls[i].status = "refused"
         /\ wh.calls[i].commission.gatewayFeeInCents = Num(0)
         /\ wh.calls[i].commission.userCommissionInCents = Num(0)
    /\ ~hasUtmParams(store, wh.orderId)

\* C4: every request whose body parses is answered 200 with success true and a
\* message, whatever the event (also a missing one) and however the
\* attribution send ends; 500 is answered only when the body does not parse.
C4_ParseableBodyAcknowledged ==
  wh.pc = "done" =>
    /\ wh.req.kind = "object" =>
         /\ wh.resp.status = 200
         /\ wh.resp.success = TRUE
         /\ "message" \in DOMAIN wh.resp
    /\ wh.resp.status = 500 => wh.req.kind = "invalid"

\* the request w carries an event name that is neither transaction.paid nor
\* transaction.failed
NonTerminalEvent(w) ==
  /\ w.req.kind = "object"
  /\ "event" \in DOMAIN w.req.obj
  /\ w.req.obj.event \notin {transactionPaid, transactionFailed}

\* C5: a webhook step that handles transaction.created, a withdrawal.* event or
\* any other event name that is neither transaction.paid nor transaction.failed
\* answers 200, sends no attribution event and leaves the store as it was.
C5_NonTerminalEventOnlyAcknowledged ==
  [][(wh' # wh /\ NonTerminalEvent(wh')) =>
       /\ wh'.pc = "done"
       /\ wh'.resp.status = 200
       /\ wh'.resp.success = TRUE
       /\ wh'.calls = <<>>
       /\ store' = store]_vars

C5_Witness ==
  /\ wh.pc = "done"
  /\ NonTerminalEvent(wh)
  /\ wh.req.obj.event = <<"withdrawal", ".", "failed">>
  /\ hasUtmParams(store, wh.orderId)
  /\ wh.resp.status = 200

\* the request body names a customer field that is missing, an empty item
\* list, or a total that is no positive number
InvalidCheckoutBody(body) ==
  \/ "customer" \notin DOMAIN body
  \/ \E f \in {"name", "email", "cpf", "phone"} : Get(body.customer, f) \in {UNDEF, NULL, ""}
  \/ "items" \notin DOMAIN body
  \/ body.items = <<>>
  \/ "total" \notin DOMAIN body
  \/ ~(body.total.t = "num" /\ body.total.v > 0)

\* C6: a checkout request with a missing customer field, an empty item list or
\* a total that is no positive number is answered 400, and neither the gateway
\* nor the attribution client is called.
C6_InvalidInputRejected ==
  (chk.pc # "idle" /\ chk.req.kind = "object" /\ InvalidCheckoutBody(chk.req.obj)) =>
    /\ chk.pc = "done"
    /\ chk.resp.status = 400
    /\ chk.gwCalls = 0
    /\ chk.calls = <<>>

\* C7: once the create-charge call has succeeded, a failed attribution send
\* (rejected or thrown) leaves the answer as it is: 200 with success true, the
\* order id, the gateway transaction id and the PIX artifacts.
C7_AttributionFailureIsolated ==
  (chk.pc = "done" /\ chk.utmfy \in {"rejected", "throw"}) =>
    LET data == chk.gw.value.obj.data IN
    /\ chk.resp.status = 200
    /\ chk.resp.success = TRUE
    /\ chk.resp.orderId = chk.orderId
    /\ chk.resp.transactionId = data.transactionId
    /\ chk.resp.pix.qrcode =
         (IF data.paymentData.copyPaste # "" THEN data.paymentData.copyPaste ELSE data.paymentData.qrCode)
    /\ chk.resp.pix.qrCodeBase64 = data.paymentData.qrCodeBase64
    /\ chk.resp.pix.expiresAt = data.paymentData.expiresAt

C7_Witness ==
  /\ chk.pc = "done"
  /\ chk.utmfy = "throw"
  /\ chk.calls # <<>>
  /\ chk.resp.status = 200
  /\ chk.resp.pix.qrcode = "qr"

\* the tracking block of a metadata string: the nested trackingParams member
\* when there is one, else the parsed object itself
MetadataBlock(metadata) ==
  IF "trackingParams" \in DOMAIN metadata.obj THEN metadata.obj.trackingParams ELSE metadata.obj

\* a block's seven fields as they are, a field the block lacks being null
Verbatim(block) == [f \in Fields |-> IF f \in DOMAIN block THEN block[f] ELSE NULL]

\* a block's seven fields, an empty or missing one being null
EmptyAsNull(block) ==
  [f \in Fields |-> IF f \in DOMAIN block /\ block[f] # "" THEN block[f] ELSE NULL]

\* the webhook step that has just sent an attribution event
WebhookSent == wh.pc \in {"idle", "done"} /\ wh'.pc = "utmfy"

\* C8 as stated: the event's tracking parameters are the store's record when
\* there is one, else the metadata's tracking block used verbatim, else (no
\* metadata, or metadata that does not parse) the all-null block.
C8_TrackingVerbatim ==
  [][WebhookSent =>
       LET metadata == metadataOf(wh'.req.obj) IN
       wh'.calls[1].trackingParameters =
         IF wh'.orderId \in DOMAIN store THEN store[wh'.orderId]
         ELSE IF metadata.kind = "object" THEN Verbatim(MetadataBlock(metadata))
         ELSE defaultParams]_vars

\* C8 as amended: the same priority order, but a field of the metadata's
\* tracking block that is empty or missing is sent as null, and the all-null
\* block is also used for metadata that parses to null.
C8_TrackingPriority ==
  [][WebhookSent =>
       LET metadata == metadataOf(wh'.req.obj) IN
       wh'.calls[1].trackingParameters =
         IF wh'.orderId \in DOMAIN store THEN store[wh'.orderId]
         ELSE IF metadata.kind = "object" THEN EmptyAsNull(MetadataBlock(metadata))
         ELSE defaultParams]_vars

\* the store has a record that differs from the block of the metadata in hand
C8_Witness ==
  /\ wh.pc = "utmfy"
  /\ wh.found
  /\ metadataOf(wh.req.obj).kind = "object"
  /\ wh.calls[1].trackingParameters = FullBlock
  /\ EmptyAsNull(MetadataBlock(metadataOf(wh.req.obj))) # FullBlock

\* C9: a gateway client function never throws: a network exception and a
\* non-2xx response both come back as {success: false, message, error}.
C9_ClientNeverThrows ==
  cli.op # "none" =>
    /\ ~cli.result.threw
    /\ (cli.outcome.kind = "throw" \/ ~cli.outcome.ok) =>
         /\ cli.result.value.kind = "object"
         /\ DOMAIN cli.result.value.obj = {"success", "message", "error"}
         /\ cli.result.value.obj.success = FALSE
         /\ Truthy(cli.result.value.obj.message)

C9_Witness ==
  /\ cli.op = "getBlackCatSeller"
  /\ cli.outcome.kind = "response"
  /\ ~cli.outcome.ok
  /\ cli.outcome.body = InvalidJson
  /\ cli.result.value.obj.success = FALSE

\* the raw status of the gateway answer the status handler holds
RawStatus == st.gw.value.obj.data.status

StatusAnswered ==
  /\ st.pc = "done"
  /\ ~st.gw.threw
  /\ st.gw.value.kind = "object"
  /\ IsTrue(st.gw.value.obj, "success")
  /\ "data" \in DOMAIN st.gw.value.obj

\* C10: the raw status maps, whatever its letter case, PENDING to pending,
\* PAID to paid, CANCELLED to cancelled and REFUNDED to refunded; every other
\* string maps to pending; the mapping never fails.
C10_MapStatus ==
  StatusAnswered =>
    /\ st.resp.status = 200
    /\ RawStatus \in CaseVariants(PENDING) => st.resp.mapped = "pending"
    /\ RawStatus \in CaseVariants(PAID) => st.resp.mapped = "paid"
    /\ RawStatus \in CaseVariants(CANCELLED) => st.resp.mapped = "cancelled"
    /\ RawStatus \in CaseVariants(REFUNDED) => st.resp.mapped = "refunded"
    /\ RawStatus \notin (CaseVariants(PENDING) \cup CaseVariants(PAID)
                         \cup CaseVariants(CANCELLED) \cup CaseVariants(REFUNDED))
         => st.resp.mapped = "pending"

C10_Witness ==
  /\ StatusAnswered
  /\ RawStatus = <<"P", "a", "i", "d">>
  /\ st.resp.mapped = "paid"

\* the create-sale call of the checkout request c has been issued, and the
\* request carried tracking parameters
TrackedChargeIssued(c) ==
  /\ c.gwCalls = 1
  /\ c.req.kind = "object"
  /\ "trackingParams" \in DOMAIN c.req.obj

\* this step is the arrival of a webhook that names the charge of the checkout
\* request: its external reference is the externalRef of the create-sale call
WebhookArrivesForCharge ==
  /\ wh.pc \in {"idle", "done"}
  /\ wh' # wh
  /\ wh'.req.kind = "object"
  /\ TrackedChargeIssued(chk)
  /\ Get(wh'.req.obj, "externalReference") = chk.request[1].externalRef

\* this step is a paid or failed webhook for order id whose attribution send
\* has returned, the only place where the receiver deletes a record
TerminalWebhookDeletes(id) ==
  /\ wh.pc = "utmfy"
  /\ wh'.pc = "done"
  /\ wh.branch \in {"paid", "failed"}
  /\ wh.orderId = id
  /\ wh'.utmfy # "throw"

\* C11 as stated: in every interleaving, a webhook for the charge of a
\* checkout request that carried tracking parameters finds the record in the
\* store.  A second webhook for the charge, after a paid or failed one has
\* deleted the record, does not find it
C11_WebhookAlwaysFindsRecord ==
  [][WebhookArrivesForCharge => wh'.found]_vars

\* C11: when a checkout request that carries tracking parameters issues the
\* create-sale call, the record is already in the store under the order id the
\* call names, and a record leaves the store only when a paid or failed
\* webhook for its order id has had its attribution send return; so a webhook
\* for the charge finds the record unless such a webhook has deleted it before
C11_WrittenBeforeCallKeptUntilTerminal ==
  [][/\ (chk.pc # "gateway" /\ chk'.pc = "gateway" /\ TrackedChargeIssued(chk'))
          => /\ hasUtmParams(store', chk'.request[1].externalRef)
             /\ getUtmParams(store', chk'.request[1].externalRef)
                  = OrNullBlock(chk'.req.obj.trackingParams)
     /\ \A id \in DOMAIN store :
          id \notin DOMAIN store' => TerminalWebhookDeletes(id)
     /\ (WebhookArrivesForCharge /\ hasUtmParams(store, chk.orderId)) => wh'.found]_vars

\* a webhook for the charge arrived while the checkout request was still
\* waiting for the gateway's answer, and found the record
C11_Witness ==
  /\ chk.pc = "gateway"
  /\ TrackedChargeIssued(chk)
  /\ wh.pc \in {"utmfy", "done"}
  /\ wh.req.kind = "object"
  /\ Get(wh.req.obj, "externalReference") = chk.request[1].externalRef
  /\ wh.found

\* the field k of the payload is present: the key is there and its value is
\* neither null nor the empty string
Present(payload, k) == k \in DOMAIN payload /\ payload[k] \notin {NULL, ""}

\* the order id the payload names: the external reference, else the
\* transaction id, else the empty string
NamedOrderId(payload) ==
  IF Present(payload, "externalReference") THEN payload.externalReference
  ELSE IF Present(payload, "transactionId") THEN payload.transactionId
  ELSE ""

\* C12: the webhook receiver resolves the order id as the external reference
\* if present, else the transaction id, else the empty string; the store
\* lookup, the order id of the attribution event and the store delete all use
\* that one id
C12_OneResolvedOrderId ==
  [][/\ (wh.pc \in {"idle", "done"} /\ wh' # wh /\ wh'.req.kind = "object")
          => LET id == NamedOrderId(wh'.req.obj) IN
             /\ wh'.orderId = id
             /\ wh'.found = (id \in DOMAIN store)
             /\ wh'.found => wh'.trackingParams = OrNullBlock(store[id])
             /\ wh'.pc = "utmfy" => (Len(wh'.calls) = 1 /\ wh'.calls[1].orderId = id)
     /\ (wh.pc = "utmfy" /\ wh'.pc = "done")
          => LET id == NamedOrderId(wh.req.obj) IN
             store' = IF wh'.utmfy = "throw"
                        THEN store
                        ELSE [k \in DOMAIN store \ {id} |-> store[k]]]_vars

\* a paid webhook that carries both ids was looked up, sent and deleted under
\* its external reference
C12_Witness ==
  /\ wh.pc = "done"
  /\ wh.branch = "paid"
  /\ wh.utmfy = "ok"
  /\ Present(wh.req.obj, "externalReference")
  /\ Present(wh.req.obj, "transactionId")
  /\ wh.req.obj.externalReference # wh.req.obj.transactionId
  /\ wh.orderId = wh.req.obj.externalReference
  /\ wh.found
  /\ wh.calls[1].orderId = wh.orderId
  /\ ~hasUtmParams(store, wh.orderId)

====
